---- MODULE Spec2Model ----
(***************************************************************************)
(* A model of the dependency-resolution core of debdl (src/main.py):       *)
(* parse_packages_file, parse_dependencies, resolve_dependencies and       *)
(* compute_install_order.                                                  *)
(*                                                                         *)
(* A Python str is modelled as a sequence of one-character strings, so     *)
(* that strip/split are computed character by character as Python does.    *)
(***************************************************************************)
EXTENDS Integers, Sequences, FiniteSets, TLC

VARIABLES
    pc,            \* which function is running / has returned
    packages,      \* the index: package name -> pkg_info (field -> str)
    index_src,     \* ghost: the dependency groups the index text was written from
    package_name,  \* the root handed to the top-level resolve_dependencies call
    resolved,      \* resolve_dependencies: the set `resolved`
    seen,          \* resolve_dependencies: the set `seen`
    warnings,      \* names for which the "not found" warning was printed
    insertion,     \* ghost: the order in which names were added to `resolved`
    rstack,        \* active frames of resolve_dependencies past both guards
    rcall,         \* <<n>>: a call resolve_dependencies(n, ...) just entered; <<>>: none
    iter,          \* compute_install_order: members the for loop has yielded so far
    visited,       \* compute_install_order: the set `visited`
    order,         \* compute_install_order: the list `order`
    dstack,        \* active frames of dfs
    dcall,         \* <<n>>: a call dfs(n) just entered; <<>>: none
    dep_str,       \* parse_dependencies: its argument
    deps,          \* parse_dependencies: its result
    line,          \* parse_packages_file: the line handled last
    key,           \* parse_packages_file: <<>> is None, <<k>> is the str k
    pkg_info,      \* parse_packages_file: the record being built
    nlines         \* parse_packages_file: lines of the record handled so far

vars == <<pc, packages, index_src, package_name, resolved, seen, warnings,
          insertion, rstack, rcall, iter, visited, order, dstack, dcall,
          dep_str, deps, line, key, pkg_info, nlines>>

resolveVars == <<package_name, resolved, seen, warnings, insertion, rstack, rcall>>
orderVars == <<iter, visited, order, dstack, dcall>>
parseVars == <<dep_str, deps>>
metaVars == <<line, key, pkg_info, nlines>>

-----------------------------------------------------------------------------
(* Bounds *)

\* longest dependency field drawn for parse_dependencies on its own
MaxLen == 4
\* dependency groups in the whole index
MaxGroups == 2
\* longest line of a record, and lines per record
MaxLineLen == 3
MaxLines == 3

-----------------------------------------------------------------------------
(* Python str operations *)

\* characters str.strip() removes that can occur inside one line
Whitespace == {" ", "\t"}

Min(S) == CHOOSE x \in S : \A y \in S : x <= y
Max(S) == CHOOSE x \in S : \A y \in S : x >= y

\* s.strip()
Strip(s) ==
    LET keep == {i \in 1..Len(s) : s[i] \notin Whitespace}
    IN  IF keep = {} THEN <<>> ELSE SubSeq(s, Min(keep), Max(keep))

\* s.split(c) for a one-character separator c: the pieces between the occurrences
\* of c, always at least one piece
Split(s, c) ==
    LET seps == {i \in 1..Len(s) : s[i] = c}
        n == Cardinality(seps)
        SepAt(k) == IF k = 0 THEN 0
                    ELSE IF k = n + 1 THEN Len(s) + 1
                    ELSE CHOOSE i \in seps : Cardinality({j \in seps : j <= i}) = k
    IN  [k \in 1..(n + 1) |-> SubSeq(s, SepAt(k - 1) + 1, SepAt(k) - 1)]

\* c in s
Contains(s, c) == \E i \in 1..Len(s) : s[i] = c

\* s.split(c, 1) when c occurs in s: the text before and after the first c
SplitOnce(s, c) ==
    LET p == Min({i \in 1..Len(s) : s[i] = c})
    IN  <<SubSeq(s, 1, p - 1), SubSeq(s, p + 1, Len(s))>>

\* s.startswith(c)
StartsWith(s, c) == Len(s) > 0 /\ s[1] = c

\* sep.join(parts)
Join(parts, sep) ==
    LET F[i \in 0..Len(parts)] ==
            IF i = 0 THEN <<>>
            ELSE IF i = 1 THEN parts[1]
            ELSE F[i-1] \o sep \o parts[i]
    IN  F[Len(parts)]

\* all sequences over S of length at most n
SeqsUpTo(S, n) == UNION {[1..k -> S] : k \in 0..n}

-----------------------------------------------------------------------------
(* parse_dependencies *)

\* a plausible slip: the last alternative of a group is taken, not the first
parse_dependencies_last_alt(s) ==
    LET parts == Split(s, ",")
        F[i \in 0..Len(parts)] ==
            IF i = 0 THEN <<>>
            ELSE LET dep == Strip(parts[i])
                     alternatives == Split(dep, "|")
                     last_alt == Strip(alternatives[Len(alternatives)])
                 IN  IF dep = <<>> THEN F[i-1]
                     ELSE Append(F[i-1], Split(last_alt, " ")[1])
    IN  F[Len(parts)]

parse_dependencies(s) ==
    LET parts == Split(s, ",")
        F[i \in 0..Len(parts)] ==
            IF i = 0 THEN <<>>
            ELSE LET dep == Strip(parts[i])
                     alternatives == Split(dep, "|")
                     first_alt == Strip(alternatives[1])
                 IN  IF dep = <<>> THEN F[i-1]
                     ELSE Append(F[i-1], Split(first_alt, " ")[1])
    IN  F[Len(parts)]

\* the set of a list's elements
Range(f) == {f[i] : i \in DOMAIN f}

-----------------------------------------------------------------------------
(* The index: the Packages text the run is given, already parsed *)

Names == {<<"a">>, <<"b">>, <<"c">>}
NameAt == << <<"a">>, <<"b">>, <<"c">> >>
\* the name that may follow a '|' in a generated Depends field
AltNames == {<<"c">>}
\* a version constraint as it is written after a candidate
Constraint == <<" ", "(", ">", "=", " ", "1", ")">>

\* an alternative group: one candidate, or a first candidate and an alternative
Groups == {<<n>> : n \in Names} \cup {<<n, m>> : n \in Names, m \in AltNames}

RenderGroup(g) ==
    IF Len(g) = 1 THEN g[1]
    ELSE g[1] \o Constraint \o <<" ", "|", " ">> \o g[2]

\* the Depends field written for a sequence of groups
RenderField(gs) == Join([i \in 1..Len(gs) |-> RenderGroup(gs[i])], <<",", " ">>)

\* how many groups each of the three packages has
Counts == {c \in [1..3 -> 0..MaxGroups] : c[1] + c[2] + c[3] <= MaxGroups}
\* absent from the index, present without a Depends field, or with one
Statuses(c) ==
    {st \in [1..3 -> {"absent", "nodep", "dep"}] : \A i \in 1..3 : c[i] > 0 => st[i] = "dep"}
Offset(c, i) == IF i = 1 THEN 0 ELSE IF i = 2 THEN c[1] ELSE c[1] + c[2]
Present(st) == {i \in 1..3 : st[i] # "absent"}

SrcOf(c, st, flat) ==
    [n \in {NameAt[i] : i \in Present(st)} |->
        LET i == CHOOSE j \in 1..3 : NameAt[j] = n
        IN  [has |-> st[i] = "dep",
             groups |-> SubSeq(flat, Offset(c, i) + 1, Offset(c, i) + c[i])]]

\* pkg_info as parse_packages_file builds it from the record of a package
PackagesOf(src) ==
    [n \in DOMAIN src |->
        IF src[n].has THEN [Package |-> n, Depends |-> RenderField(src[n].groups)]
        ELSE [Package |-> n]]

GenericIndexes ==
    UNION {UNION {{[src |-> SrcOf(c, st, flat), roots |-> Names]
                    : flat \in [1..(c[1] + c[2] + c[3]) -> Groups]}
                  : st \in Statuses(c)}
           : c \in Counts}

\* index = {A: Depends="B, C|D", B: Depends="C", C: {}, D: {}}
ScenarioA ==
    [packages |->
        (<<"A">> :> [Package |-> <<"A">>, Depends |-> <<"B", ",", " ", "C", "|", "D">>]) @@
        (<<"B">> :> [Package |-> <<"B">>, Depends |-> <<"C">>]) @@
        (<<"C">> :> [Package |-> <<"C">>]) @@
        (<<"D">> :> [Package |-> <<"D">>]),
     src |->
        (<<"A">> :> [has |-> TRUE, groups |-> << << <<"B">> >>, << <<"C">>, <<"D">> >> >>]) @@
        (<<"B">> :> [has |-> TRUE, groups |-> << << <<"C">> >> >>]) @@
        (<<"C">> :> [has |-> FALSE, groups |-> <<>>]) @@
        (<<"D">> :> [has |-> FALSE, groups |-> <<>>]),
     roots |-> {<<"A">>}]

\* index = {A: Depends="B", B: Depends="A"}
ScenarioB ==
    [packages |->
        (<<"A">> :> [Package |-> <<"A">>, Depends |-> <<"B">>]) @@
        (<<"B">> :> [Package |-> <<"B">>, Depends |-> <<"A">>]),
     src |->
        (<<"A">> :> [has |-> TRUE, groups |-> << << <<"B">> >> >>]) @@
        (<<"B">> :> [has |-> TRUE, groups |-> << << <<"A">> >> >>]),
     roots |-> {<<"A">>}]

\* index = {A: Depends="Z"}, Z absent
ScenarioC ==
    [packages |->
        (<<"A">> :> [Package |-> <<"A">>, Depends |-> <<"Z">>]),
     src |->
        (<<"A">> :> [has |-> TRUE, groups |-> << << <<"Z">> >> >>]),
     roots |-> {<<"A">>}]

Indexes ==
    {[packages |-> PackagesOf(ix.src), src |-> ix.src, roots |-> ix.roots] : ix \in GenericIndexes}
        \cup {ScenarioA, ScenarioB, ScenarioC}

\* every Depends field of every index, and parse_dependencies tabulated on them
DependsFields ==
    UNION {{ix.packages[n].Depends :
                n \in {m \in DOMAIN ix.packages : "Depends" \in DOMAIN ix.packages[m]}}
           : ix \in Indexes}
ParsedDepends == [f \in DependsFields |-> parse_dependencies(f)]

\* `parse_dependencies(pkg_info["Depends"])` when the package is known and has the
\* field, no names otherwise
DepList(n) ==
    IF n \in DOMAIN packages /\ "Depends" \in DOMAIN packages[n]
    THEN ParsedDepends[packages[n].Depends]
    ELSE <<>>

NoPkgInfo == [k \in {} |-> <<>>]
NoPackages == [n \in {} |-> NoPkgInfo]

InitResolveIdle ==
    /\ resolved = {} /\ seen = {} /\ warnings = <<>> /\ insertion = <<>>
    /\ rstack = <<>> /\ rcall = <<>>
InitOrderIdle ==
    /\ iter = <<>> /\ visited = {} /\ order = <<>> /\ dstack = <<>> /\ dcall = <<>>
InitParseIdle == dep_str = <<>> /\ deps = <<>>
InitMetaIdle == line = <<>> /\ key = <<>> /\ pkg_info = NoPkgInfo /\ nlines = 0

-----------------------------------------------------------------------------
(* resolve_dependencies *)

Top(stack) == stack[Len(stack)]
Pop(stack) == SubSeq(stack, 1, Len(stack) - 1)

\* `if package_name in resolved: return resolved`
ResolveAlready ==
    /\ pc = "resolve" /\ rcall # <<>>
    /\ rcall[1] \in resolved
    /\ rcall' = <<>>
    /\ UNCHANGED <<pc, packages, index_src, package_name, resolved, seen, warnings,
                   insertion, rstack, orderVars, parseVars, metaVars>>

\* `if package_name in seen: return resolved`
ResolveSeen ==
    /\ pc = "resolve" /\ rcall # <<>>
    /\ rcall[1] \notin resolved
    /\ rcall[1] \in seen
    /\ rcall' = <<>>
    /\ UNCHANGED <<pc, packages, index_src, package_name, resolved, seen, warnings,
                   insertion, rstack, orderVars, parseVars, metaVars>>

\* a plausible slip: an unknown name is added to the result all the same
ResolveMissingAdds ==
    /\ pc = "resolve" /\ rcall # <<>>
    /\ rcall[1] \notin resolved /\ rcall[1] \notin seen
    /\ rcall[1] \notin DOMAIN packages
    /\ seen' = seen \cup {rcall[1]}
    /\ warnings' = Append(warnings, rcall[1])
    /\ resolved' = resolved \cup {rcall[1]}
    /\ insertion' = Append(insertion, rcall[1])
    /\ rcall' = <<>>
    /\ UNCHANGED <<pc, packages, index_src, package_name, rstack,
                   orderVars, parseVars, metaVars>>

\* `seen.add(...)`; `if package_name not in packages: print(Warning); return resolved`
ResolveMissing ==
    /\ pc = "resolve" /\ rcall # <<>>
    /\ rcall[1] \notin resolved /\ rcall[1] \notin seen
    /\ rcall[1] \notin DOMAIN packages
    /\ seen' = seen \cup {rcall[1]}
    /\ warnings' = Append(warnings, rcall[1])
    /\ rcall' = <<>>
    /\ UNCHANGED <<pc, packages, index_src, package_name, resolved, insertion, rstack,
                   orderVars, parseVars, metaVars>>

\* a plausible slip: the guard set is not filled, so a cycle is not cut
ResolveEnterNoSeen ==
    /\ pc = "resolve" /\ rcall # <<>>
    /\ rcall[1] \notin resolved /\ rcall[1] \notin seen
    /\ rcall[1] \in DOMAIN packages
    /\ Len(rstack) <= 2 * Cardinality(DOMAIN packages)
    /\ rstack' = Append(rstack, [package_name |-> rcall[1],
                                 dep_list |-> DepList(rcall[1]), i |-> 1])
    /\ rcall' = <<>>
    /\ UNCHANGED <<pc, packages, index_src, package_name, resolved, seen, warnings,
                   insertion, orderVars, parseVars, metaVars>>

\* `seen.add(...)`; the package is known: its Depends field is parsed and the
\* loop over dep_list begins
ResolveEnter ==
    /\ pc = "resolve" /\ rcall # <<>>
    /\ rcall[1] \notin resolved /\ rcall[1] \notin seen
    /\ rcall[1] \in DOMAIN packages
    /\ seen' = seen \cup {rcall[1]}
    /\ rstack' = Append(rstack, [package_name |-> rcall[1],
                                 dep_list |-> DepList(rcall[1]), i |-> 1])
    /\ rcall' = <<>>
    /\ UNCHANGED <<pc, packages, index_src, package_name, resolved, warnings,
                   insertion, orderVars, parseVars, metaVars>>

\* `for dep in dep_list: resolve_dependencies(dep, packages, resolved, seen)`
ResolveLoop ==
    /\ pc = "resolve" /\ rcall = <<>> /\ rstack # <<>>
    /\ Top(rstack).i <= Len(Top(rstack).dep_list)
    /\ rcall' = <<Top(rstack).dep_list[Top(rstack).i]>>
    /\ rstack' = [rstack EXCEPT ![Len(rstack)].i = @ + 1]
    /\ UNCHANGED <<pc, packages, index_src, package_name, resolved, seen, warnings,
                   insertion, orderVars, parseVars, metaVars>>

\* a plausible slip: `resolved.add` indented into the `if "Depends" in pkg_info` block
ResolveAddIfDepends ==
    /\ pc = "resolve" /\ rcall = <<>> /\ rstack # <<>>
    /\ Top(rstack).i > Len(Top(rstack).dep_list)
    /\ IF "Depends" \in DOMAIN packages[Top(rstack).package_name]
       THEN /\ resolved' = resolved \cup {Top(rstack).package_name}
            /\ insertion' = Append(insertion, Top(rstack).package_name)
       ELSE UNCHANGED <<resolved, insertion>>
    /\ rstack' = Pop(rstack)
    /\ UNCHANGED <<pc, packages, index_src, package_name, seen, warnings, rcall,
                   orderVars, parseVars, metaVars>>

\* `resolved.add(package_name); return resolved`
ResolveAdd ==
    /\ pc = "resolve" /\ rcall = <<>> /\ rstack # <<>>
    /\ Top(rstack).i > Len(Top(rstack).dep_list)
    /\ resolved' = resolved \cup {Top(rstack).package_name}
    /\ insertion' = Append(insertion, Top(rstack).package_name)
    /\ rstack' = Pop(rstack)
    /\ UNCHANGED <<pc, packages, index_src, package_name, seen, warnings, rcall,
                   orderVars, parseVars, metaVars>>

\* the top-level call returns to main: `resolved = resolve_dependencies(package, packages)`
ResolveReturn ==
    /\ pc = "resolve" /\ rcall = <<>> /\ rstack = <<>>
    /\ pc' = "resolved"
    /\ UNCHANGED <<packages, index_src, resolveVars, orderVars, parseVars, metaVars>>

\* main: `packages = parse_packages_file()`, then for a target named on the command
\* line `resolved = resolve_dependencies(package, packages)`: a fresh top-level call
MainResolve ==
    /\ pc = "main"
    /\ \E ix \in Indexes :
        /\ packages' = ix.packages
        /\ index_src' = ix.src
        /\ \E root \in ix.roots :
            /\ package_name' = root
            /\ rcall' = <<root>>
    /\ resolved' = {} /\ seen' = {} /\ rstack' = <<>>
    /\ pc' = "resolve"
    /\ UNCHANGED <<warnings, insertion, orderVars, parseVars, metaVars>>

\* the steps of a running call
ResolveStep ==
    \/ ResolveAlready
    \/ ResolveSeen
    \/ ResolveMissing
    \/ ResolveEnter
    \/ ResolveLoop
    \/ ResolveAdd
    \/ ResolveReturn

NextResolve ==
    \/ MainResolve
    \/ ResolveStep

InitResolve ==
    /\ pc = "main"
    /\ packages = NoPackages /\ index_src = NoPackages /\ package_name = <<>>
    /\ InitResolveIdle /\ InitOrderIdle /\ InitParseIdle /\ InitMetaIdle

SpecResolve == InitResolve /\ [][NextResolve]_vars

\* the interpreter runs a call that was made: a step it can take is taken
SpecResolveFair == SpecResolve /\ WF_vars(ResolveStep)

-----------------------------------------------------------------------------
(* compute_install_order *)

\* the names dfs reads for pkg: parse_dependencies(packages[pkg]["Depends"])
DfsDeps(pkg) == DepList(pkg)

\* main: `if resolved: ... install_order = compute_install_order(resolved, packages)`;
\* `order = []`, `visited = set()`
OrderStart ==
    /\ pc = "resolved" /\ resolved # {}
    /\ pc' = "order"
    /\ iter' = <<>> /\ visited' = {} /\ order' = <<>> /\ dstack' = <<>> /\ dcall' = <<>>
    /\ UNCHANGED <<packages, index_src, resolveVars, parseVars, metaVars>>

\* main: an empty result is falsy, nothing is ordered
OrderSkip ==
    /\ pc = "resolved" /\ resolved = {}
    /\ pc' = "done"
    /\ UNCHANGED <<packages, index_src, resolveVars, orderVars, parseVars, metaVars>>

\* `for pkg in resolved: if pkg not in visited: dfs(pkg)`. `resolved` is a set:
\* it yields each member once, in an order the hash table decides.
ForNext ==
    /\ pc = "order" /\ dcall = <<>> /\ dstack = <<>>
    /\ \E pkg \in resolved \ Range(iter) :
        /\ iter' = Append(iter, pkg)
        /\ dcall' = IF pkg \notin visited THEN <<pkg>> ELSE <<>>
    /\ UNCHANGED <<pc, packages, index_src, resolveVars, visited, order, dstack,
                   parseVars, metaVars>>

\* `if pkg in visited: return`
DfsVisited ==
    /\ pc = "order" /\ dcall # <<>>
    /\ dcall[1] \in visited
    /\ dcall' = <<>>
    /\ UNCHANGED <<pc, packages, index_src, resolveVars, iter, visited, order, dstack,
                   parseVars, metaVars>>

\* `visited.add(pkg)`, then the loop over the package's dependencies begins
DfsEnter ==
    /\ pc = "order" /\ dcall # <<>>
    /\ dcall[1] \notin visited
    /\ visited' = visited \cup {dcall[1]}
    /\ dstack' = Append(dstack, [pkg |-> dcall[1], deps |-> DfsDeps(dcall[1]),
                                 i |-> 1])
    /\ dcall' = <<>>
    /\ UNCHANGED <<pc, packages, index_src, resolveVars, iter, order, parseVars, metaVars>>

\* a plausible slip: the `if dep in resolved` test is left out
DfsLoopNoTest ==
    /\ pc = "order" /\ dcall = <<>> /\ dstack # <<>>
    /\ Top(dstack).i <= Len(Top(dstack).deps)
    /\ dcall' = <<Top(dstack).deps[Top(dstack).i]>>
    /\ dstack' = [dstack EXCEPT ![Len(dstack)].i = @ + 1]
    /\ UNCHANGED <<pc, packages, index_src, resolveVars, iter, visited, order,
                   parseVars, metaVars>>

\* `for dep in parse_dependencies(...): if dep in resolved: dfs(dep)`
DfsLoop ==
    /\ pc = "order" /\ dcall = <<>> /\ dstack # <<>>
    /\ Top(dstack).i <= Len(Top(dstack).deps)
    /\ dcall' = IF Top(dstack).deps[Top(dstack).i] \in resolved
                THEN <<Top(dstack).deps[Top(dstack).i]>> ELSE <<>>
    /\ dstack' = [dstack EXCEPT ![Len(dstack)].i = @ + 1]
    /\ UNCHANGED <<pc, packages, index_src, resolveVars, iter, visited, order,
                   parseVars, metaVars>>

\* a plausible slip: the package is put at the front of the list
DfsAppendFront ==
    /\ pc = "order" /\ dcall = <<>> /\ dstack # <<>>
    /\ Top(dstack).i > Len(Top(dstack).deps)
    /\ order' = <<Top(dstack).pkg>> \o order
    /\ dstack' = Pop(dstack)
    /\ UNCHANGED <<pc, packages, index_src, resolveVars, iter, visited, dcall,
                   parseVars, metaVars>>

\* `order.append(pkg)`, dfs returns
DfsAppend ==
    /\ pc = "order" /\ dcall = <<>> /\ dstack # <<>>
    /\ Top(dstack).i > Len(Top(dstack).deps)
    /\ order' = Append(order, Top(dstack).pkg)
    /\ dstack' = Pop(dstack)
    /\ UNCHANGED <<pc, packages, index_src, resolveVars, iter, visited, dcall,
                   parseVars, metaVars>>

\* the for loop is exhausted: `return order`
OrderReturn ==
    /\ pc = "order" /\ dcall = <<>> /\ dstack = <<>>
    /\ Range(iter) = resolved
    /\ pc' = "done"
    /\ UNCHANGED <<packages, index_src, resolveVars, orderVars, parseVars, metaVars>>

NextOrder ==
    \/ ForNext
    \/ DfsVisited
    \/ DfsEnter
    \/ DfsLoop
    \/ DfsAppend
    \/ OrderReturn

\* main, for one target: resolve, then order what was resolved
Init == InitResolve

Next ==
    \/ NextResolve
    \/ OrderStart
    \/ OrderSkip
    \/ NextOrder

Spec == Init /\ [][Next]_vars

\* compute_install_order called on its own: any set of names as `resolved`
InitOrder ==
    /\ pc = "order"
    /\ \E ix \in Indexes :
        /\ packages = ix.packages
        /\ index_src = ix.src
        /\ resolved \in SUBSET (DOMAIN ix.packages \cup Names)
    /\ package_name = <<>>
    /\ seen = {} /\ warnings = <<>> /\ insertion = <<>> /\ rstack = <<>> /\ rcall = <<>>
    /\ InitOrderIdle /\ InitParseIdle /\ InitMetaIdle

SpecOrder == InitOrder /\ [][NextOrder]_vars

-----------------------------------------------------------------------------
(* parse_dependencies on its own *)

ParseAlphabet == {"a", "b", " ", "\t", ",", "|", "("}

ParseDependencies ==
    /\ pc = "parse"
    /\ deps' = parse_dependencies(dep_str)
    /\ pc' = "parsed"
    /\ UNCHANGED <<packages, index_src, resolveVars, orderVars, dep_str, metaVars>>

InitParse ==
    /\ pc = "parse"
    /\ dep_str \in SeqsUpTo(ParseAlphabet, MaxLen)
    /\ deps = <<>>
    /\ packages = NoPackages /\ index_src = NoPackages /\ package_name = <<>>
    /\ InitResolveIdle /\ InitOrderIdle /\ InitMetaIdle

SpecParse == InitParse /\ [][ParseDependencies]_vars

-----------------------------------------------------------------------------
(* parse_packages_file: the loop over the lines of one record *)

LineAlphabet == {"k", "v", ":", " ", "\t"}
Lines == SeqsUpTo(LineAlphabet, MaxLineLen)

\* pkg_info[k] = v
SetItem(info, k, v) ==
    [x \in DOMAIN info \cup {k} |-> IF x = k THEN v ELSE info[x]]

\* the body of `for line in lines:` for the line l
HandleLine(l) ==
    IF StartsWith(l, " ")
    THEN /\ pkg_info' = IF key # <<>> /\ key[1] # <<>>
                        THEN [pkg_info EXCEPT ![key[1]] = @ \o <<" ">> \o Strip(l)]
                        ELSE pkg_info
         /\ key' = key
    ELSE IF Contains(l, ":")
    THEN LET kv == SplitOnce(l, ":")
         IN  /\ key' = <<Strip(kv[1])>>
             /\ pkg_info' = SetItem(pkg_info, Strip(kv[1]), Strip(kv[2]))
    ELSE UNCHANGED <<key, pkg_info>>

MetaLine ==
    /\ pc = "meta"
    /\ nlines < MaxLines
    /\ \E l \in Lines :
        /\ line' = l
        /\ HandleLine(l)
    /\ nlines' = nlines + 1
    /\ UNCHANGED <<pc, packages, index_src, resolveVars, orderVars, parseVars>>

\* `pkg_info = {}`, `key = None` at the start of a record
InitMeta ==
    /\ pc = "meta"
    /\ line = <<>> /\ key = <<>> /\ pkg_info = NoPkgInfo /\ nlines = 0
    /\ packages = NoPackages /\ index_src = NoPackages /\ package_name = <<>>
    /\ InitResolveIdle /\ InitOrderIdle /\ InitParseIdle

SpecMeta == InitMeta /\ [][MetaLine]_vars

-----------------------------------------------------------------------------
(* compute_install_order as a function of the order in which the for loop    *)
(* yields the members of `resolved`                                          *)

RECURSIVE DfsFun(_, _)
\* dfs(pkg) run on st = [v |-> visited, o |-> order]: the two after it returns
DfsFun(pkg, st) ==
    IF pkg \in st.v THEN st
    ELSE LET ds == DfsDeps(pkg)
             G[i \in 0..Len(ds)] ==
                 IF i = 0 THEN [v |-> st.v \cup {pkg}, o |-> st.o]
                 ELSE IF ds[i] \in resolved THEN DfsFun(ds[i], G[i-1])
                 ELSE G[i-1]
             r == G[Len(ds)]
         IN  [v |-> r.v, o |-> Append(r.o, pkg)]

\* the list compute_install_order returns when the for loop yields `it`
PostOrder(it) ==
    LET H[i \in 0..Len(it)] ==
            IF i = 0 THEN [v |-> {}, o |-> <<>>]
            ELSE DfsFun(it[i], H[i-1])
    IN  H[Len(it)].o

-----------------------------------------------------------------------------
(* Vocabulary of the properties *)

\* d is a first-alternative dependency of p: parse_dependencies yields it for p
FirstAltDeps(p) == Range(DepList(p))

\* the names reachable from x by zero or more first-alternative edges that stay in S
ReachIn(S, x) ==
    LET R[k \in 0..Cardinality(S)] ==
            IF k = 0 THEN {x}
            ELSE LET prev == R[k-1]
                 IN  prev \cup {d \in S : \E p \in prev : d \in FirstAltDeps(p)}
    IN  R[Cardinality(S)]

\* d stands at a strictly earlier position of `order` than p
Before(d, p) ==
    \E i, j \in 1..Len(order) : i < j /\ order[i] = d /\ order[j] = p

NoDuplicates(seq) == \A i, j \in 1..Len(seq) : seq[i] = seq[j] => i = j

\* the first candidates written in the index text for p
FirstCandidates(p) ==
    IF p \in DOMAIN index_src
    THEN {index_src[p].groups[i][1] : i \in 1..Len(index_src[p].groups)}
    ELSE {}

-----------------------------------------------------------------------------
(* C1 *)

\* C1 as stated: in the order computed for any closure the resolver returns, every
\* first-alternative dependency d of p, both in the closure, stands strictly before p,
\* cyclic and self-dependent indexes included.
C1_OrderValidity ==
    pc = "done" =>
        \A p, d \in resolved : d \in FirstAltDeps(p) => Before(d, p)

\* C1 amended: in the order computed for a closure the resolver returns, every
\* first-alternative dependency d of p, both in the closure, stands strictly before p
\* unless p and d lie on a common cycle of first-alternative edges (d = p, or p is
\* reachable from d).
C1_OrderValidityOffCycles ==
    pc = "done" =>
        \A p, d \in resolved :
            d \in FirstAltDeps(p) /\ p \notin ReachIn(DOMAIN packages, d) => Before(d, p)

\* the resolver's closure of three packages, one of them depending on the other two,
\* has been ordered
C1_Witness ==
    /\ pc = "done"
    /\ Cardinality(resolved) >= 3
    /\ \E p, d, e \in resolved :
        /\ d # e /\ d # p /\ e # p
        /\ {d, e} \subseteq FirstAltDeps(p)
        /\ p \notin ReachIn(DOMAIN packages, d)
        /\ Before(d, p) /\ Before(e, p)

-----------------------------------------------------------------------------
(* C2 *)

\* C2: when the top-level call returns, `resolved` is exactly the set of index keys
\* reachable from the root by first-alternative edges through index keys; it is empty
\* when the root is no key.
C2_ClosureExact ==
    pc = "resolved" =>
        resolved = IF package_name \in DOMAIN packages
                   THEN ReachIn(DOMAIN packages, package_name)
                   ELSE {}

\* the call returned after a cycle back to the root was cut
C2_Witness ==
    /\ pc = "resolved"
    /\ \E p \in resolved : p # package_name /\ package_name \in FirstAltDeps(p)
    /\ Cardinality(resolved) >= 2

-----------------------------------------------------------------------------
(* C3 *)

\* no name has two active frames
NoNameTwiceOnStack ==
    \A i, j \in 1..Len(rstack) :
        rstack[i].package_name = rstack[j].package_name => i = j

\* every call that passed both guards is active, has returned with a warning or has
\* returned after adding its name: there are as many as names in `seen`
FramesBounded ==
    Len(rstack) + Len(warnings) + Len(insertion) = Cardinality(seen)

\* C3: the call returns on every index, cyclic ones included; no name occurs twice on
\* the recursion stack and the frames past the guards number at most the distinct
\* names encountered; on {A: Depends="B", B: Depends="A"} the call on A returns a set
\* holding A and B.
C3_Termination ==
    /\ [](NoNameTwiceOnStack /\ FramesBounded)
    /\ (pc = "resolve") ~> (pc = "resolved")
    /\ [](pc = "resolved" /\ packages = ScenarioB.packages
            => {<<"A">>, <<"B">>} \subseteq resolved)

\* the call on A of scenario B has returned
C3_Witness ==
    /\ pc = "resolved"
    /\ packages = ScenarioB.packages
    /\ resolved = {<<"A">>, <<"B">>}
    /\ Cardinality(seen) = 2

-----------------------------------------------------------------------------
(* C4 *)

\* C4: the list compute_install_order returns holds every member of the closure
\* exactly once and nothing else.
C4_Permutation ==
    /\ NoDuplicates(order)
    /\ Range(order) \subseteq resolved
    /\ pc = "done" => (Range(order) = resolved /\ Len(order) = Cardinality(resolved))

\* an order was returned for a closure with a cycle and a name that is no index key
C4_Witness ==
    /\ pc = "done"
    /\ Cardinality(resolved) = 3
    /\ \E p, d \in resolved :
        p # d /\ d \in FirstAltDeps(p) /\ p \in FirstAltDeps(d)
    /\ \E n \in resolved : n \notin DOMAIN packages

-----------------------------------------------------------------------------
(* C5 *)

\* C5: a name that is no index key is warned about and never added; the call goes
\* on: when it returns, every known name it entered is in the result and every
\* dependency of a member was tried. {A: Depends="Z"} gives {A}; an unknown root
\* gives the empty set.
C5_MissingNonFatal ==
    /\ resolved \subseteq DOMAIN packages
    /\ Range(warnings) = seen \ DOMAIN packages
    /\ pc = "resolved" =>
        /\ seen \cap DOMAIN packages \subseteq resolved
        /\ \A p \in resolved : FirstAltDeps(p) \subseteq seen
        /\ packages = ScenarioC.packages => resolved = {<<"A">>}
        /\ package_name \notin DOMAIN packages => resolved = {}

\* the call returned for a package whose first dependency is unknown and whose second
\* dependency is known
C5_Witness ==
    /\ pc = "resolved"
    /\ \E p \in resolved :
        /\ Len(DepList(p)) = 2
        /\ DepList(p)[1] \notin DOMAIN packages
        /\ DepList(p)[1] \in Range(warnings)
        /\ DepList(p)[2] \in resolved \ {p}

-----------------------------------------------------------------------------
(* C6 *)

\* C6: a member of the closure is the root or the first candidate of a group of a
\* member, never a later candidate on account of its group; the order holds no other
\* name; scenario A gives the closure {A, B, C}, without D.
C6_FirstAlternativeOnly ==
    /\ \A n \in resolved \cup Range(order) :
        n = package_name \/ \E p \in seen : n \in FirstCandidates(p)
    /\ pc \in {"resolved", "order", "done"} =>
        \A n \in resolved \cup Range(order) :
            n = package_name \/ \E p \in resolved : n \in FirstCandidates(p)
    /\ (pc \in {"resolved", "order", "done"} /\ packages = ScenarioA.packages)
        => resolved = {<<"A">>, <<"B">>, <<"C">>}
    /\ (pc = "done" /\ packages = ScenarioA.packages)
        => order = << <<"C">>, <<"B">>, <<"A">> >>

\* a closure was ordered in which a group's first candidate is unknown and its
\* alternative, an index key, is left out
C6_Witness ==
    /\ pc = "done"
    /\ \E p \in resolved :
        \E i \in 1..Len(index_src[p].groups) :
            LET g == index_src[p].groups[i]
            IN  /\ Len(g) = 2
                /\ g[1] \notin DOMAIN packages
                /\ g[2] \in DOMAIN packages
                /\ g[2] \notin resolved

-----------------------------------------------------------------------------
(* C7 *)

\* C7 as stated: the for loop yields the members in the order in which
\* resolve_dependencies inserted them.
C7_InsertionOrderIteration ==
    pc \in {"order", "done"} => iter = SubSeq(insertion, 1, Len(iter))

\* C7 amended: the for loop yields every member once, in an order that need not be
\* the insertion order; the returned list is determined by that order: it is the
\* depth-first post-order over it.
C7_OrderDeterminedByIteration ==
    /\ NoDuplicates(iter) /\ Range(iter) \subseteq resolved
    /\ pc = "done" /\ resolved # {} =>
        /\ Range(iter) = resolved
        /\ order = PostOrder(iter)

\* an order was returned after the loop yielded the members in another order than
\* they were inserted, and it differs from the insertion order
C7_Witness ==
    /\ pc = "done"
    /\ Len(iter) >= 2
    /\ iter # insertion
    /\ order # insertion
    /\ order = PostOrder(iter)

-----------------------------------------------------------------------------
(* C8 *)

\* the leading token of a candidate up to its first whitespace character
LeadingToken(cand) ==
    LET t == Strip(cand)
        ws == {i \in 1..Len(t) : t[i] \in Whitespace}
    IN  IF ws = {} THEN t ELSE SubSeq(t, 1, Min(ws) - 1)

\* one name per non-empty comma-separated group, left to right
NamesAsStated(s) ==
    LET parts == Split(s, ",")
        F[i \in 0..Len(parts)] ==
            IF i = 0 THEN <<>>
            ELSE LET prev == F[i-1]
                 IN  IF Strip(parts[i]) = <<>> THEN prev
                     ELSE Append(prev, LeadingToken(Split(Strip(parts[i]), "|")[1]))
    IN  F[Len(parts)]

\* C8: parse_dependencies returns, left to right, one name per non-empty group: the
\* leading token of the group's first candidate up to its first whitespace character.
C8_ParseDependencies ==
    pc = "parsed" => deps = NamesAsStated(dep_str)

-----------------------------------------------------------------------------
(* C9 *)

\* what the record is after the line l, as stated
LineAsStated(l) ==
    IF Len(l) > 0 /\ l[1] \in Whitespace
    THEN /\ key' = key
         /\ pkg_info' = IF key # <<>>
                        THEN [pkg_info EXCEPT ![key[1]] = @ \o <<" ">> \o Strip(l)]
                        ELSE pkg_info
    ELSE IF Contains(l, ":")
    THEN /\ key' = <<Strip(SplitOnce(l, ":")[1])>>
         /\ pkg_info' = SetItem(pkg_info, Strip(SplitOnce(l, ":")[1]),
                                Strip(SplitOnce(l, ":")[2]))
    ELSE UNCHANGED <<key, pkg_info>>

\* C9: a line that begins with whitespace appends " " and its trimmed content to the
\* value of the most recently seen key and defines no key (it is ignored when there is
\* no such key); another line with a colon sets the key before the colon to the
\* trimmed text after it; any other line is ignored.
C9_LineHandling ==
    [][nlines' = nlines + 1 => LineAsStated(line')]_vars

-----------------------------------------------------------------------------
(* C10 *)

\* C10: for any set given as the closure, a first-alternative dependency d of p, both
\* members, that does not stand strictly before p in the returned list lies on a
\* common cycle with p inside the closure: d = p or p is reachable from d by
\* in-closure edges. In a closure without cycles every dependency precedes its
\* dependent.
C10_ViolationsOnCyclesOnly ==
    pc = "done" =>
        \A p, d \in resolved :
            d \in FirstAltDeps(p) /\ ~Before(d, p) => p \in ReachIn(resolved, d)

\* an order was returned for a set that is no resolver closure (a member is no index
\* key) in which one edge of a cycle is out of order while the other is in order
C10_Witness ==
    /\ pc = "done"
    /\ \E p, d \in resolved :
        /\ p # d
        /\ d \in FirstAltDeps(p) /\ p \in FirstAltDeps(d)
        /\ Before(d, p) /\ ~Before(p, d)
    /\ resolved \ DOMAIN packages # {}

====
